---- MODULE Spec2Model ----
(***************************************************************************)
(* ServerConnection of snowflake/snowpark/_internal/server_connection.py:  *)
(* the guarded session facade, the listener registry, run_query,           *)
(* run_batch_insert and the plan executor get_result_set.                  *)
(*                                                                         *)
(* One behaviour is the life of one ServerConnection: listeners are        *)
(* registered and removed, the connection may be closed, the session's     *)
(* cancellation watermark may rise, and one public operation is called and *)
(* runs to its end, one cursor statement per step.                         *)
(***************************************************************************)
EXTENDS Integers, Sequences, FiniteSets, TLC

\* ------------------------------------------------------------------ bounds
MaxQueries == 2
MaxPostActions == 2
MaxCancelId == 2
\* The arguments of the static methods: precision and scale up to these, result
\* sets of at most MaxRows rows.
MaxInputPrecision == 40
MaxInputScale == 40
MaxRows == 2

\* ------------------------------------------------------------- SQL texts
\* A SQL text is a sequence of tokens <<kind, n>>: a word of plain SQL, the
\* placeholder token of the n-th statement of a plan (Query generates one random
\* token per statement, so the tokens of a plan are distinct and none is part of
\* another), or the statement id the server gave to its n-th statement.
Word(n) == <<"w", n>>
Holder(n) == <<"h", n>>
IdToken(n) == <<"id", n>>

PlainSql == <<Word(1)>>
RichSql == <<Holder(1), Word(1), Holder(1)>> \o [j \in 1..MaxQueries |-> Holder(j)]
InsertSql == <<Word(2), Holder(1)>>
PostSql(k) == <<Word(3), Holder(1), Word(k)>>
SetTagSql == <<Word(4)>>
UnsetTagSql == <<Word(5)>>

\* Query and BatchInsertQuery: the j-th statement of a plan.
Query(j, text) == [batch |-> FALSE, sql |-> text, query_id_place_holder |-> Holder(j)]
BatchInsertQuery(j) == [batch |-> TRUE, sql |-> InsertSql, query_id_place_holder |-> Holder(j)]
QueriesAt(j) == {Query(j, RichSql), BatchInsertQuery(j)}

QueryLists(n) ==
    {qs \in [1..n -> UNION {QueriesAt(j) : j \in 1..n}] : \A j \in 1..n : qs[j] \in QueriesAt(j)}
PostActionLists == {[k \in 1..m |-> PostSql(k)] : m \in 0..MaxPostActions}
Plans ==
    {[queries |-> qs, post_actions |-> ps] :
        qs \in UNION {QueryLists(n) : n \in 0..MaxQueries}, ps \in PostActionLists}

\* ------------------------------------------------------------ listeners
Listeners == {"L1", "L2"}
\* Listeners whose _add_query may raise.
FaultyListeners == {"L2"}
\* The plans of at most one statement and one post-action.
IsShort(plan) == Len(plan.queries) <= 1 /\ Len(plan.post_actions) <= 1

\* -------------------------------------------------------------- results
NoData == [form |-> "none", rows |-> <<>>]
\* What the server returns for its n-th statement: two raw rows of two columns.
RawRows(n) == <<<<n, 0>>, <<0, n>>>>
\* cursor.description after the n-th statement: two columns of the same name.
Description(n) == [none |-> FALSE, cols |-> <<[name |-> "C", of |-> n], [name |-> "C", of |-> n]>>]
NoDescription == [none |-> TRUE, cols |-> <<>>]
NoResult == [none |-> TRUE, data |-> NoData, sfqid |-> 0]

VARIABLES
    closed,            \* self._conn.is_closed()
    query_listener,    \* self._query_listener
    last_action_id,    \* the session's action counter
    last_canceled_id,  \* the session's cancellation watermark
    in_stored_proc,    \* Utils.is_in_stored_procedure()
    sfq,               \* statements the cursor has executed; the last statement id
    description,       \* self._cursor.description
    query_tag,         \* whether the session's query tag is set
    call,              \* the public operation in progress, its arguments, and whether
                       \* the connection was closed when it was called
    pc,                \* where that operation stands
    i,                 \* get_result_set: index of the main statement in hand
    k,                 \* get_result_set: index of the post-action in hand
    action_id,         \* get_result_set: the captured action id
    result,            \* get_result_set: result
    result_meta,       \* get_result_set: result_meta
    placeholders,      \* get_result_set: placeholders, in insertion order
    pending,           \* the exception in flight when the finally block is entered
    outcome,           \* what the operation returned or raised
    log,               \* the operation so far: every statement it ran or tried to run,
                       \* and every cancellation check with the watermark it saw
    broadcast,         \* the last statement that ran, and the listeners registered then
                       \* whose _add_query was not called for it
    args,              \* the arguments of the static or stateless method called
    value              \* what that method returned or raised

vars == <<closed, query_listener, last_action_id, last_canceled_id, in_stored_proc, sfq,
          description, query_tag, call, pc, i, k, action_id, result, result_meta,
          placeholders, pending, outcome, log, broadcast, args, value>>

\* ------------------------------------------------------------- outcomes
NoOutcome == [kind |-> "none", exc |-> "none", data |-> NoData, meta |-> NoDescription]
Raise(e) == [kind |-> "raise", exc |-> e, data |-> NoData, meta |-> NoDescription]
Return(d, m) == [kind |-> "return", exc |-> "none", data |-> d, meta |-> m]

NoCall == [op |-> "none", plan |-> [queries |-> <<>>, post_actions |-> <<>>],
           to_pandas |-> FALSE, tag |-> FALSE, query |-> <<>>, was_closed |-> FALSE]
NoBroadcast == [sfqid |-> 0, unheard |-> {}]
NoArgs == [method |-> "none"]
NoValue == [kind |-> "none"]

\* ------------------------------------------------- the exception guard
\* _Decorator.wrap_exception, the except clauses: a re-authentication request of
\* the transport becomes SERVER_SESSION_EXPIRED, anything else is raised as it is.
wrap_exception_raise(exc) == IF exc = "Reauth" THEN "SessionExpired" ELSE exc

\* What a guarded function does that never reaches the cursor. A run tells what
\* it raised (exc), whether its text reached the cursor (sub) and was executed
\* (ran), the listeners told of it (got), the form of the data fetched, and what
\* the transport did in it: the cursor's execute, executemany or describe (cur),
\* fetch_pandas_all (pandas) and fetchall (fetchall), "none" when not called.
Unrun(e) == [exc |-> e, sub |-> FALSE, ran |-> FALSE, got |-> {}, form |-> "none",
             cur |-> "none", pandas |-> "none", fetchall |-> "none"]

\* The runs of a guarded function as its caller sees them, once it was entered.
Reraised(runs) == {[r EXCEPT !.exc = wrap_exception_raise(r.exc)] : r \in runs}

\* _Decorator.wrap_exception around a function whose possible runs are `runs`:
\* a closed connection raises SERVER_SESSION_HAS_BEEN_CLOSED before the function.
wrap_exception_unguarded(runs) == Reraised(runs)
wrap_exception(runs) == IF closed THEN {Unrun("SessionClosed")} ELSE Reraised(runs)

\* ------------------------------------------------------------ transport
\* Cursor.execute, executemany and describe: the statement runs, or the transport
\* raises an error of its own or a ReauthenticationRequest; a closed connection
\* runs nothing.
CursorExecute == IF closed THEN {"SqlError"} ELSE {"ok", "SqlError", "Reauth"}
\* Cursor.fetchall.
FetchAll == {"ok", "FetchError", "Reauth"}
\* Cursor.fetch_pandas_all, which is not supported for every statement.
FetchPandasAll == {"ok", "NotSupported", "FetchError", "Reauth"}

\* ------------------------------------------------------------- listeners
\* notify_query_listeners: _add_query of every registered listener, in the set's
\* order; a listener that raises ends the loop, the listeners after it unheard.
notify_query_listeners ==
    {[exc |-> "none", got |-> query_listener]}
    \cup UNION {{[exc |-> "ListenerError", got |-> before \cup {f}] :
                    before \in SUBSET (query_listener \ {f})} :
                 f \in query_listener \cap FaultyListeners}

\* One statement on the cursor followed by its broadcast (run_batch_insert, and
\* the try block of run_query).
ExecuteAndNotify ==
    {[Unrun(e) EXCEPT !.sub = TRUE, !.cur = e] : e \in CursorExecute \ {"ok"}}
    \cup {[Unrun(n.exc) EXCEPT !.sub = TRUE, !.ran = TRUE, !.got = n.got, !.cur = "ok"] :
            n \in IF "ok" \in CursorExecute THEN notify_query_listeners ELSE {}}

\* The fetch of run_query: the form of the data, or the exception. fetchall
\* raises what the transport raises, also when it is the fallback called in the
\* except clause of NotSupportedError; any other exception of fetch_pandas_all
\* becomes SERVER_FAILED_FETCH_PANDAS.
FetchRows(pandas) ==
    {[exc |-> IF f = "ok" THEN "none" ELSE f,
      form |-> IF f = "ok" THEN "rows" ELSE "none",
      pandas |-> pandas, fetchall |-> f] : f \in FetchAll}
FetchFallbackWrapped(to_pandas) ==
    IF to_pandas
    THEN {[exc |-> "none", form |-> "table", pandas |-> "ok", fetchall |-> "none"]}
         \cup {[f EXCEPT !.exc = IF f.exc = "none" THEN "none" ELSE "FetchPandasFailed"] :
                 f \in IF "NotSupported" \in FetchPandasAll THEN FetchRows("NotSupported")
                       ELSE {}}
         \cup {[exc |-> "FetchPandasFailed", form |-> "none", pandas |-> f, fetchall |-> "none"] :
                 f \in FetchPandasAll \ {"ok", "NotSupported"}}
    ELSE FetchRows("none")
Fetch(to_pandas) ==
    IF to_pandas
    THEN {[exc |-> "none", form |-> "table", pandas |-> "ok", fetchall |-> "none"]}
         \cup (IF "NotSupported" \in FetchPandasAll THEN FetchRows("NotSupported") ELSE {})
         \cup {[exc |-> "FetchPandasFailed", form |-> "none", pandas |-> f, fetchall |-> "none"] :
                 f \in FetchPandasAll \ {"ok", "NotSupported"}}
    ELSE FetchRows("none")

\* The body of run_query: execute and broadcast, then fetch.
run_query_body(to_pandas) ==
    {r \in ExecuteAndNotify : r.exc # "none"}
    \cup {[r EXCEPT !.exc = f.exc, !.form = f.form, !.pandas = f.pandas,
                     !.fetchall = f.fetchall] :
            r \in {x \in ExecuteAndNotify : x.exc = "none"}, f \in Fetch(to_pandas)}

\* run_query under its guard.
run_query(to_pandas) == wrap_exception(run_query_body(to_pandas))

\* The effect of one run `r` of statement `text` on the cursor and on the
\* listeners, and its entry in the log: whether the text reached the cursor (sub),
\* whether the cursor executed it (ok, sfqid), and what the run raised (exc).
Submit(r, kind, idx, text) ==
    /\ sfq' = IF r.ran THEN sfq + 1 ELSE sfq
    /\ description' = IF r.ran THEN Description(sfq + 1) ELSE description
    /\ log' = Append(log, [kind |-> kind, idx |-> idx, text |-> text, sub |-> r.sub,
                           ok |-> r.ran, sfqid |-> IF r.ran THEN sfq + 1 ELSE 0,
                           exc |-> r.exc, seen |-> 0, cur |-> r.cur, pandas |-> r.pandas,
                           fetchall |-> r.fetchall])
    /\ broadcast' =
         IF r.ran
         THEN [sfqid |-> sfq + 1, unheard |-> query_listener \ r.got]
         ELSE broadcast

\* The data run_query returns for a run that fetched.
DataOf(r) == [form |-> r.form, rows |-> RawRows(sfq + 1)]

\* --------------------------------------------------------- get_result_set
\* final_query.replace(holder, id_): every occurrence of the token.
ReplaceFirst(text, holder, id_) ==
    [p \in 1..Len(text) |->
        IF text[p] = holder /\ \A q \in 1..(p - 1) : text[q] # holder
        THEN IdToken(id_) ELSE text[p]]
Replace(text, holder, id_) ==
    [p \in 1..Len(text) |-> IF text[p] = holder THEN IdToken(id_) ELSE text[p]]

\* for holder, id_ in placeholders.items(): final_query = final_query.replace(holder, id_)
RECURSIVE FinalQuery(_, _)
FinalQuery(sql, binds) ==
    IF binds = <<>> THEN sql
    ELSE FinalQuery(Replace(sql, Head(binds).holder, Head(binds).id), Tail(binds))

\* placeholders[holder] = id_: a dict keeps the place of a key it already holds.
Bind(binds, holder, id_) ==
    IF \E p \in 1..Len(binds) : binds[p].holder = holder
    THEN [p \in 1..Len(binds) |->
            IF binds[p].holder = holder THEN [holder |-> holder, id |-> id_] ELSE binds[p]]
    ELSE Append(binds, [holder |-> holder, id |-> id_])

\* Where get_result_set stands before the j-th statement of the for loop (past
\* the last one, the finally block) and before the j-th post-action.
PostPcShort(plan, j) == IF j >= Len(plan.post_actions) THEN "exit" ELSE "post"
PostPc(plan, j) == IF j > Len(plan.post_actions) THEN "exit" ELSE "post"
LoopPc(plan, j) ==
    IF j > Len(plan.queries) THEN PostPc(plan, 1)
    ELSE IF plan.queries[j].batch THEN "batch" ELSE "main"

\* self.run_query(action, **kwargs): the text of a post-action goes to run_query
\* as the plan gives it, whatever the placeholders hold.
PostActionTextBound(action, binds) == FinalQuery(action, binds)
PostActionText(action, binds) == action

\* Where an exception of run_query or run_batch_insert in the for loop takes
\* get_result_set: out of the try block, into the finally block.
OnRaiseGoOn(plan) == "check"
OnRaise(plan) == PostPc(plan, 1)

\* action_id < plan.session._get_last_canceled_id()
IsCancelledReversed(id, watermark) == watermark < id
IsCancelledOnEqual(id, watermark) == id <= watermark
IsCancelled(id, watermark) == id < watermark

\* SnowflakePlan.Decorator.wrap_exception, the decorator of get_result_set: the
\* spec names no liveness check and no translation of its own for it, and has
\* every other exception propagate unchanged.
plan_wrap_exception(o) == o

\* result_set_to_rows: one Row per raw row, with the column names as its fields
\* when metadata is given.
result_set_to_rows_dedup(result_set, meta) ==
    [form |-> "Rows",
     rows |-> [r \in 1..Len(result_set) |->
                 [values |-> result_set[r],
                  named |-> ~meta.none /\ meta.cols # <<>>,
                  fields |-> IF ~meta.none /\ meta.cols # <<>>
                             THEN SelectSeq([c \in 1..Len(meta.cols) |->
                                               IF \E b \in 1..(c - 1) :
                                                     meta.cols[b].name = meta.cols[c].name
                                               THEN "" ELSE meta.cols[c].name],
                                            LAMBDA n : n # "")
                             ELSE <<>>]]]
result_set_to_rows(result_set, meta) ==
    [form |-> "Rows",
     rows |-> [r \in 1..Len(result_set) |->
                 [values |-> result_set[r],
                  named |-> ~meta.none /\ meta.cols # <<>>,
                  fields |-> IF ~meta.none /\ meta.cols # <<>>
                             THEN [c \in 1..Len(meta.cols) |-> meta.cols[c].name]
                             ELSE <<>>]]]

\* ------------------------------------------------------------------ Init
Init ==
    /\ closed = FALSE
    /\ query_listener = {}
    /\ last_action_id = 0
    /\ last_canceled_id = 0
    /\ in_stored_proc \in BOOLEAN
    /\ sfq = 0
    /\ description = NoDescription
    /\ query_tag = FALSE
    /\ call = NoCall
    /\ pc = "idle"
    /\ i = 0
    /\ k = 0
    /\ action_id = 0
    /\ result = NoResult
    /\ result_meta = NoDescription
    /\ placeholders = <<>>
    /\ pending = "none"
    /\ outcome = NoOutcome
    /\ log = <<>>
    /\ broadcast = NoBroadcast
    /\ args = NoArgs
    /\ value = NoValue

cursorVars == <<sfq, description, log, broadcast>>
planVars == <<i, k, action_id, result, result_meta, placeholders, pending>>
envVars == <<closed, query_listener, last_action_id, last_canceled_id, in_stored_proc>>
pureVars == <<args, value>>

\* ------------------------------------------------- the world around a call
\* A listener that never raises changes nothing the run of a plan depends on:
\* the plans of more than one statement or post-action are run with the
\* listeners that may raise, the other calls with every listener.
add_query_listener(listener) ==
    /\ pc # "done"
    /\ listener \notin query_listener
    /\ (call.op \in {"get_result_set", "execute"} /\ ~IsShort(call.plan)) =>
         listener \in FaultyListeners
    /\ query_listener' = query_listener \cup {listener}
    /\ UNCHANGED <<closed, last_action_id, last_canceled_id, in_stored_proc, query_tag, call,
                   pc, outcome>>
    /\ UNCHANGED cursorVars
    /\ UNCHANGED planVars
    /\ UNCHANGED pureVars

\* set.remove: a listener that is not registered raises KeyError and changes nothing.
remove_query_listener(listener) ==
    /\ pc # "done"
    /\ listener \in query_listener
    /\ query_listener' = query_listener \ {listener}
    /\ UNCHANGED <<closed, last_action_id, last_canceled_id, in_stored_proc, query_tag, call,
                   pc, outcome>>
    /\ UNCHANGED cursorVars
    /\ UNCHANGED planVars
    /\ UNCHANGED pureVars

close ==
    /\ pc # "done"
    /\ ~closed
    /\ closed' = TRUE
    /\ UNCHANGED <<query_listener, last_action_id, last_canceled_id, in_stored_proc, query_tag,
                   call, pc, outcome>>
    /\ UNCHANGED cursorVars
    /\ UNCHANGED planVars
    /\ UNCHANGED pureVars

\* The session raises its cancellation watermark (it never lowers it). Only the
\* check of get_result_set reads it, so a rise before the call is a rise after
\* its start.
cancel_all ==
    /\ pc \notin {"idle", "done"}
    /\ call.op \in {"get_result_set", "execute"}
    /\ \E w \in (last_canceled_id + 1)..MaxCancelId : last_canceled_id' = w
    /\ UNCHANGED <<closed, query_listener, last_action_id, in_stored_proc, query_tag, call,
                   pc, outcome>>
    /\ UNCHANGED cursorVars
    /\ UNCHANGED planVars
    /\ UNCHANGED pureVars

\* ----------------------------------------------------------- get_result_set
\* The call of get_result_set, or of execute, which calls it: the action id is
\* taken and the locals are set; no statement has run yet.
get_result_set_start(c) ==
    /\ pc = "idle"
    /\ in_stored_proc => c.tag
    /\ ~IsShort(c.plan) => query_listener \subseteq FaultyListeners
    /\ call' = [c EXCEPT !.was_closed = closed]
    /\ last_action_id' = last_action_id + 1
    /\ action_id' = last_action_id + 1
    /\ result' = NoResult
    /\ result_meta' = NoDescription
    /\ placeholders' = <<>>
    /\ i' = 1
    /\ k' = 1
    /\ pc' = LoopPc(c.plan, 1)
    /\ UNCHANGED <<closed, query_listener, last_canceled_id, in_stored_proc, query_tag,
                   pending, outcome>>
    /\ UNCHANGED cursorVars
    /\ UNCHANGED pureVars

\* One turn of the for loop on a statement that is no batch insert: the
\* placeholders are replaced and run_query runs the text.
get_result_set_query ==
    /\ pc = "main"
    /\ LET query == call.plan.queries[i]
           final_query == FinalQuery(query.sql, placeholders)
       IN \E r \in run_query(call.to_pandas) :
            /\ Submit(r, "main", i, final_query)
            /\ IF r.exc = "none"
               THEN /\ result' = [none |-> FALSE, data |-> DataOf(r), sfqid |-> sfq + 1]
                    /\ placeholders' = Bind(placeholders, query.query_id_place_holder, sfq + 1)
                    /\ result_meta' = description'
                    /\ pc' = "check"
                    /\ UNCHANGED <<pending, k>>
               ELSE /\ pending' = r.exc
                    /\ pc' = OnRaise(call.plan)
                    /\ k' = 1
                    /\ UNCHANGED <<result, placeholders, result_meta>>
    /\ UNCHANGED <<i, action_id, query_tag, call, outcome>>
    /\ UNCHANGED envVars
    /\ UNCHANGED pureVars

\* The cancellation check that ends a turn of the for loop.
get_result_set_check ==
    /\ pc = "check"
    /\ IF IsCancelled(action_id, last_canceled_id)
       THEN /\ pending' = "QueryCancelled"
            /\ pc' = PostPc(call.plan, 1)
            /\ UNCHANGED i
       ELSE /\ i' = i + 1
            /\ pc' = LoopPc(call.plan, i + 1)
            /\ UNCHANGED pending
    /\ k' = 1
    /\ log' = Append(log, [kind |-> "check", idx |-> i, text |-> <<>>, sub |-> FALSE,
                           ok |-> FALSE, sfqid |-> 0,
                           exc |-> IF IsCancelled(action_id, last_canceled_id)
                                   THEN "QueryCancelled" ELSE "none",
                           seen |-> last_canceled_id, cur |-> "none", pandas |-> "none",
                           fetchall |-> "none"])
    /\ UNCHANGED <<action_id, result, result_meta, placeholders, query_tag, call, outcome>>
    /\ UNCHANGED <<sfq, description, broadcast>>
    /\ UNCHANGED envVars
    /\ UNCHANGED pureVars

\* One post-action of the finally block; an exception it raises replaces the one
\* in flight and ends get_result_set.
get_result_set_post_action ==
    /\ pc = "post"
    /\ LET action == PostActionText(call.plan.post_actions[k], placeholders)
       IN \E r \in run_query(FALSE) :
            /\ Submit(r, "post", k, action)
            /\ IF r.exc = "none"
               THEN /\ k' = k + 1
                    /\ pc' = PostPc(call.plan, k + 1)
                    /\ UNCHANGED outcome
               ELSE /\ outcome' = plan_wrap_exception(Raise(r.exc))
                    /\ pc' = "done"
                    /\ UNCHANGED k
    /\ UNCHANGED <<i, action_id, result, result_meta, placeholders, pending, query_tag, call>>
    /\ UNCHANGED envVars
    /\ UNCHANGED pureVars

\* How get_result_set ends once the finally block is through: the exception in
\* flight goes on; without one the result is returned or, when there is none,
\* SQL_LAST_QUERY_RETURN_RESULTSET is raised.
ExitOutcomeEmptyFirst(in_flight, res, meta) ==
    IF res.none THEN Raise("EmptyResult")
    ELSE IF in_flight # "none" THEN Raise(in_flight)
    ELSE Return(res.data, meta)
ExitOutcomeNoEmptyCheck(in_flight, res, meta) ==
    IF in_flight # "none" THEN Raise(in_flight) ELSE Return(res.data, meta)
ExitOutcomeLateCheck(in_flight, res, meta) ==
    IF in_flight # "none" THEN Raise(in_flight)
    ELSE IF action_id < last_canceled_id THEN Raise("QueryCancelled")
    ELSE IF res.none THEN Raise("EmptyResult")
    ELSE Return(res.data, meta)
ExitOutcomeLateMeta(in_flight, res, meta) ==
    IF in_flight # "none" THEN Raise(in_flight)
    ELSE IF res.none THEN Raise("EmptyResult")
    ELSE Return(res.data, description)
ExitOutcome(in_flight, res, meta) ==
    IF in_flight # "none" THEN Raise(in_flight)
    ELSE IF res.none THEN Raise("EmptyResult")
    ELSE Return(res.data, meta)

\* The end of the finally block and of get_result_set; execute turns the result
\* set into rows.
get_result_set_exit ==
    /\ pc = "exit"
    /\ pc' = "done"
    /\ LET got == plan_wrap_exception(ExitOutcome(pending, result, result_meta))
       IN outcome' =
            IF call.op = "execute" /\ got.kind = "return"
            THEN IF call.to_pandas
                 THEN Return(got.data, NoDescription)
                 ELSE Return(result_set_to_rows(got.data.rows, got.meta), NoDescription)
            ELSE got
    /\ UNCHANGED <<query_tag, call>>
    /\ UNCHANGED planVars
    /\ UNCHANGED cursorVars
    /\ UNCHANGED envVars
    /\ UNCHANGED pureVars

\* --------------------------------------------------------- run_batch_insert
\* query_tag of run_batch_insert: the tag asked for, unless in a stored procedure.
QueryTagAnywhere == call.tag
QueryTag == call.tag /\ ~in_stored_proc

\* The text of the batch insert in hand and its place in the plan.
BatchSql == IF call.op = "run_batch_insert" THEN call.query ELSE call.plan.queries[i].sql
BatchIdx == IF call.op = "run_batch_insert" THEN 0 ELSE i

\* Where run_batch_insert hands back: to its caller's caller, or to the for loop
\* of get_result_set (its cancellation check, or the finally block).
AfterBatch(exc) ==
    IF call.op = "run_batch_insert"
    THEN /\ pc' = "done"
         /\ outcome' = IF exc = "none" THEN Return(NoData, NoDescription) ELSE Raise(exc)
         /\ UNCHANGED <<pending, k>>
    ELSE IF exc = "none"
         THEN /\ pc' = "check"
              /\ UNCHANGED <<outcome, pending, k>>
         ELSE /\ pc' = OnRaise(call.plan)
              /\ pending' = exc
              /\ k' = 1
              /\ UNCHANGED outcome

\* alter session set query_tag, the first statement of a tagged batch insert.
run_batch_insert_set_tag ==
    /\ pc = "batch"
    /\ QueryTag
    /\ \E r \in wrap_exception(ExecuteAndNotify) :
         /\ Submit(r, "set_tag", BatchIdx, SetTagSql)
         /\ query_tag' = (query_tag \/ r.ran)
         /\ IF r.exc = "none"
            THEN pc' = "batch_insert" /\ UNCHANGED <<outcome, pending, k>>
            ELSE AfterBatch(r.exc)
    /\ UNCHANGED <<i, action_id, result, result_meta, placeholders, call>>
    /\ UNCHANGED envVars
    /\ UNCHANGED pureVars

\* executemany, the insert itself.
run_batch_insert_executemany ==
    /\ \/ pc = "batch" /\ ~QueryTag
       \/ pc = "batch_insert"
    /\ \E r \in IF pc = "batch" THEN wrap_exception(ExecuteAndNotify)
                ELSE Reraised(ExecuteAndNotify) :
         /\ Submit(r, "batch", BatchIdx, BatchSql)
         /\ IF r.exc = "none" /\ QueryTag
            THEN pc' = "batch_unset" /\ UNCHANGED <<outcome, pending, k>>
            ELSE AfterBatch(r.exc)
    /\ UNCHANGED <<i, action_id, result, result_meta, placeholders, call, query_tag>>
    /\ UNCHANGED envVars
    /\ UNCHANGED pureVars

\* alter session unset query_tag, the last statement of a tagged batch insert.
run_batch_insert_unset_tag ==
    /\ pc = "batch_unset"
    /\ \E r \in Reraised(ExecuteAndNotify) :
         /\ Submit(r, "unset_tag", BatchIdx, UnsetTagSql)
         /\ query_tag' = (query_tag /\ ~r.ran)
         /\ AfterBatch(r.exc)
    /\ UNCHANGED <<i, action_id, result, result_meta, placeholders, call>>
    /\ UNCHANGED envVars
    /\ UNCHANGED pureVars

\* The call of run_batch_insert by the user.
run_batch_insert_start(tag) ==
    /\ pc = "idle"
    /\ in_stored_proc => tag
    /\ call' = [NoCall EXCEPT !.op = "run_batch_insert", !.tag = tag, !.query = InsertSql,
                              !.was_closed = closed]
    /\ pc' = "batch"
    /\ UNCHANGED <<query_tag, outcome>>
    /\ UNCHANGED planVars
    /\ UNCHANGED cursorVars
    /\ UNCHANGED envVars
    /\ UNCHANGED pureVars

\* ------------------------------------------------- the other operations
\* run_query called by the user.
run_query_call(query, to_pandas) ==
    /\ pc = "idle"
    /\ ~in_stored_proc
    /\ call' = [NoCall EXCEPT !.op = "run_query", !.to_pandas = to_pandas, !.query = query,
                              !.was_closed = closed]
    /\ \E r \in run_query(to_pandas) :
         /\ Submit(r, "query", 0, query)
         /\ outcome' = IF r.exc = "none" THEN Return(DataOf(r), NoDescription)
                       ELSE Raise(r.exc)
    /\ pc' = "done"
    /\ UNCHANGED query_tag
    /\ UNCHANGED planVars
    /\ UNCHANGED envVars
    /\ UNCHANGED pureVars

\* get_session_id and get_parameter_value: a read of the connection under the guard.
session_read(op) ==
    /\ pc = "idle"
    /\ ~in_stored_proc
    /\ call' = [NoCall EXCEPT !.op = op, !.was_closed = closed]
    /\ \E r \in wrap_exception({Unrun("none")}) :
         outcome' = IF r.exc = "none" THEN Return(NoData, NoDescription) ELSE Raise(r.exc)
    /\ pc' = "done"
    /\ UNCHANGED query_tag
    /\ UNCHANGED planVars
    /\ UNCHANGED cursorVars
    /\ UNCHANGED envVars
    /\ UNCHANGED pureVars

\* get_result_attributes: nothing for a PUT or a GET, the cursor's describe for
\* any other text; describe executes nothing and notifies nobody.
get_result_attributes(query, put_or_get) ==
    /\ pc = "idle"
    /\ ~in_stored_proc
    /\ call' = [NoCall EXCEPT !.op = "get_result_attributes", !.query = query,
                              !.was_closed = closed]
    /\ \E r \in wrap_exception(IF put_or_get THEN {Unrun("none")}
                               ELSE {[Unrun(IF e = "ok" THEN "none" ELSE e)
                                         EXCEPT !.sub = TRUE, !.cur = e] :
                                       e \in CursorExecute}) :
         /\ Submit(r, "describe", 0, query)
         /\ outcome' = IF r.exc = "none" THEN Return(NoData, NoDescription) ELSE Raise(r.exc)
    /\ pc' = "done"
    /\ UNCHANGED query_tag
    /\ UNCHANGED planVars
    /\ UNCHANGED envVars
    /\ UNCHANGED pureVars

\* ------------------------------------------------------------ the calls
\* Utils.is_in_stored_procedure is read only by a run_batch_insert that is asked
\* for a query tag: the calls that never read it are made outside one.
HasBatch(plan) == \E j \in 1..Len(plan.queries) : plan.queries[j].batch
ShortPlans == {p \in Plans : IsShort(p)}
\* get_result_set: every plan with row fetch, the short plans with tabular fetch
\* too; a query tag is asked for or not when the plan holds a batch insert.
GetResultSetCalls ==
    {c \in [op : {"get_result_set"}, plan : Plans, to_pandas : BOOLEAN, tag : BOOLEAN,
            query : {<<>>}, was_closed : {FALSE}] :
        /\ c.to_pandas => c.plan \in ShortPlans
        /\ c.tag => HasBatch(c.plan)}
ExecuteCalls ==
    [op : {"execute"}, plan : ShortPlans, to_pandas : BOOLEAN, tag : {FALSE}, query : {<<>>},
     was_closed : {FALSE}]

\* ------------------------------------------------------------------ Next
Next ==
    \/ \E l \in Listeners : add_query_listener(l)
    \/ \E l \in Listeners : remove_query_listener(l)
    \/ close
    \/ cancel_all
    \/ \E c \in GetResultSetCalls \cup ExecuteCalls : get_result_set_start(c)
    \/ get_result_set_query
    \/ get_result_set_check
    \/ get_result_set_post_action
    \/ get_result_set_exit
    \/ \E tag \in BOOLEAN : run_batch_insert_start(tag)
    \/ run_batch_insert_set_tag
    \/ run_batch_insert_executemany
    \/ run_batch_insert_unset_tag
    \/ \E to_pandas \in BOOLEAN : run_query_call(PlainSql, to_pandas)
    \/ \E op \in {"get_session_id", "get_parameter_value"} : session_read(op)
    \/ \E put_or_get \in BOOLEAN : get_result_attributes(PlainSql, put_or_get)

Spec == Init /\ [][Next]_vars


\* ======================================================= the static methods
\* ------------------------------------------------------------ _get_data_type
\* DecimalType._MAX_PRECISION and DecimalType._MAX_SCALE of snowflake.snowpark.types.
MAX_PRECISION == 38
MAX_SCALE == 38

DecimalType(precision, scale) == [kind |-> "DecimalType", precision |-> precision, scale |-> scale]
DataType(name) == [kind |-> name, precision |-> 0, scale |-> 0]
NotImplementedError == [kind |-> "NotImplementedError", precision |-> 0, scale |-> 0]

\* The branch of DECIMAL, and of FIXED with a scale.
decimal_type_zero_and(precision, scale) ==
    IF precision # 0 /\ scale # 0
    THEN IF precision > MAX_PRECISION
         THEN DecimalType(MAX_PRECISION, scale + precision - MAX_SCALE)
         ELSE DecimalType(precision, scale)
    ELSE DecimalType(38, 18)
decimal_type_unclamped(precision, scale) ==
    IF precision # 0 \/ scale # 0
    THEN DecimalType(precision, scale)
    ELSE DecimalType(38, 18)
decimal_type(precision, scale) ==
    IF precision # 0 \/ scale # 0
    THEN IF precision > MAX_PRECISION
         THEN DecimalType(MAX_PRECISION, scale + precision - MAX_SCALE)
         ELSE DecimalType(precision, scale)
    ELSE DecimalType(38, 18)

get_data_type(column_type_name, precision, scale) ==
    IF column_type_name = "ARRAY" THEN DataType("ArrayType(StringType)")
    ELSE IF column_type_name = "VARIANT" THEN DataType("VariantType")
    ELSE IF column_type_name = "OBJECT" THEN DataType("MapType(StringType, StringType)")
    ELSE IF column_type_name = "GEOGRAPHY" THEN DataType("GeographyType")
    ELSE IF column_type_name = "BOOLEAN" THEN DataType("BooleanType")
    ELSE IF column_type_name = "BINARY" THEN DataType("BinaryType")
    ELSE IF column_type_name = "TEXT" THEN DataType("StringType")
    ELSE IF column_type_name = "TIME" THEN DataType("TimeType")
    ELSE IF column_type_name \in {"TIMESTAMP", "TIMESTAMP_LTZ", "TIMESTAMP_TZ", "TIMESTAMP_NTZ"}
         THEN DataType("TimestampType")
    ELSE IF column_type_name = "DATE" THEN DataType("DateType")
    ELSE IF column_type_name = "DECIMAL" \/ (column_type_name = "FIXED" /\ scale # 0)
         THEN decimal_type(precision, scale)
    ELSE IF column_type_name = "REAL" THEN DataType("DoubleType")
    ELSE IF column_type_name = "FIXED" /\ scale = 0 THEN DataType("LongType")
    ELSE NotImplementedError

\* The logical names the mapper is called with; "VECTOR" is one it does not know.
ColumnTypeNames == {"DECIMAL", "FIXED", "REAL", "TEXT", "TIMESTAMP_TZ", "VECTOR"}
GetDataTypeArgs ==
    [method : {"_get_data_type"}, column_type_name : ColumnTypeNames,
     precision : 0..MaxInputPrecision, scale : 0..MaxInputScale]

\* -------------------------------------------------------- result_set_to_rows
\* Raw rows of one or two values, and the metadata of one or two columns (the
\* cursor's description, whose columns may bear the same name) or none.
RawRowsOf(width) == UNION {[1..n -> [1..width -> {0, 1}]] : n \in 0..MaxRows}
ColumnNames(width) == [1..width -> {"A", "B"}]
ResultMetas ==
    {NoDescription}
    \cup {[none |-> FALSE, cols |-> [c \in 1..Len(names) |-> [name |-> names[c], of |-> 0]]] :
            names \in ColumnNames(1) \cup ColumnNames(2)}
ResultSetToRowsArgs ==
    [method : {"result_set_to_rows"}, result_set : RawRowsOf(1) \cup RawRowsOf(2),
     result_meta : ResultMetas]

\* ----------------------------------------------------- their specification
\* One call of a static method on arguments of the sets above; the connection
\* is not touched.
StaticInit ==
    /\ closed = FALSE
    /\ query_listener = {}
    /\ last_action_id = 0
    /\ last_canceled_id = 0
    /\ in_stored_proc = FALSE
    /\ sfq = 0
    /\ description = NoDescription
    /\ query_tag = FALSE
    /\ call = NoCall
    /\ pc = "idle"
    /\ i = 0
    /\ k = 0
    /\ action_id = 0
    /\ result = NoResult
    /\ result_meta = NoDescription
    /\ placeholders = <<>>
    /\ pending = "none"
    /\ outcome = NoOutcome
    /\ log = <<>>
    /\ broadcast = NoBroadcast
    /\ args \in GetDataTypeArgs \cup ResultSetToRowsArgs
    /\ value = NoValue

connVars == <<closed, query_listener, last_action_id, last_canceled_id, in_stored_proc, sfq,
              description, query_tag, call, pc, i, k, action_id, result, result_meta,
              placeholders, pending, outcome, log, broadcast>>

get_data_type_call ==
    /\ args.method = "_get_data_type"
    /\ value = NoValue
    /\ value' = get_data_type(args.column_type_name, args.precision, args.scale)
    /\ UNCHANGED args
    /\ UNCHANGED connVars

result_set_to_rows_call ==
    /\ args.method = "result_set_to_rows"
    /\ value = NoValue
    /\ value' = result_set_to_rows(args.result_set, args.result_meta)
    /\ UNCHANGED args
    /\ UNCHANGED connVars

StaticNext ==
    \/ get_data_type_call
    \/ result_set_to_rows_call

StaticSpec == StaticInit /\ [][StaticNext]_vars

\* ================================================================ claims
\* What the log tells of a call of get_result_set (or of execute, which calls it).
PlanOp == call.op \in {"get_result_set", "execute"}
Done == pc = "done"
IsPost(e) == e.kind = "post"
IsStatement(e) == e.kind \in {"main", "batch", "set_tag", "unset_tag"}
\* The post-actions run_query was called for, in the order of the calls.
PostEntries == SelectSeq(log, IsPost)
NPost == Len(call.plan.post_actions)
NQueries == Len(call.plan.queries)
\* The places of the log where the main phase raised: a statement of the for
\* loop, or a cancellation check.
MainRaises == {p \in 1..Len(log) : log[p].kind \in {"main", "batch", "set_tag", "unset_tag", "check"}
                                   /\ log[p].exc # "none"}
PostRaises == {p \in 1..Len(log) : log[p].kind = "post" /\ log[p].exc # "none"}
\* The checks that saw the watermark above the captured action id.
WatermarkAbove == {p \in 1..Len(log) : log[p].kind = "check" /\ log[p].seen > action_id}
\* Every post-action was run, or the last one run raised.
PostPhaseThrough ==
    \/ Len(PostEntries) = NPost /\ PostRaises = {}
    \/ Len(PostEntries) >= 1 /\ PostEntries[Len(PostEntries)].exc # "none"
\* The post-actions were run in plan order, each at most once, with the plan's
\* text, and none but the last one run raised.
PostPhaseInOrder ==
    /\ Len(PostEntries) <= NPost
    /\ \A p \in 1..Len(PostEntries) :
         /\ PostEntries[p].idx = p
         /\ PostEntries[p].text = call.plan.post_actions[p]
         /\ p < Len(PostEntries) => PostEntries[p].exc = "none" /\ PostEntries[p].ok

\* C1, as stated: in every execution of get_result_set each post-action of the
\* plan is executed exactly once, whatever the outcome of the main statements.
\* (Read in the claim's favour: run_query is called for it exactly once.)
C1_EveryPostActionOnce ==
    (Done /\ PlanOp) =>
        \A j \in 1..NPost : Cardinality({p \in 1..Len(log) : IsPost(log[p]) /\ log[p].idx = j}) = 1

\* C1, amended: whatever the outcome of the main statements, the post-actions are
\* run in plan order, each at most once, and when get_result_set ends each has
\* been executed exactly once unless a post-action raised: the post-actions
\* after the one that raised are not run.
C1_PostActionsUntilOneRaises ==
    PlanOp =>
        /\ PostPhaseInOrder
        /\ Done => PostPhaseThrough
        /\ (Done /\ PostRaises = {}) =>
             \A j \in 1..NPost :
                Cardinality({p \in 1..Len(log) : IsPost(log[p]) /\ log[p].idx = j /\ log[p].ok}) = 1

\* C1's case: a main statement raised, and both post-actions ran after it.
C1_Witness ==
    /\ Done /\ PlanOp
    /\ \E p \in MainRaises : log[p].kind = "main"
    /\ NPost = 2 /\ Len(PostEntries) = 2 /\ PostRaises = {}

\* C2, as stated: if the watermark is above the captured action id after main
\* statement i completes, no main statement after i is executed, the
\* post-actions are executed, and get_result_set raises QueryCancelledError.
C2_CancelledAlwaysRaisesCancelled ==
    (Done /\ PlanOp) =>
        \A c \in WatermarkAbove :
            /\ \A q \in (c + 1)..Len(log) : ~IsStatement(log[q])
            /\ \A j \in 1..NPost : \E q \in 1..Len(log) : IsPost(log[q]) /\ log[q].idx = j
            /\ outcome = Raise("QueryCancelled")

\* C2, amended: if the watermark is above the captured action id at the check
\* after main statement i, no main statement after i is ever run, the
\* post-actions are run (until one of them raises), and get_result_set ends by
\* raising: QueryCancelledError, or the error of the post-action that raised.
C2_CancelledStopsMainStatements ==
    PlanOp =>
        \A c \in WatermarkAbove :
            /\ log[c].exc = "QueryCancelled"
            /\ \A q \in (c + 1)..Len(log) : IsPost(log[q])
            /\ Done =>
                 /\ PostPhaseThrough
                 /\ outcome.kind = "raise"
                 /\ outcome.exc = IF PostRaises = {} THEN "QueryCancelled"
                                  ELSE PostEntries[Len(PostEntries)].exc

\* C2's case: the check after statement 1 of a plan of two statements saw the
\* watermark above the action id, both post-actions ran and
\* QueryCancelledError was raised.
C2_Witness ==
    /\ Done /\ PlanOp /\ NQueries = 2 /\ NPost = 2
    /\ \E c \in WatermarkAbove : log[c].idx = 1
    /\ Len(PostEntries) = 2
    /\ outcome = Raise("QueryCancelled")

\* C3: when a main statement raises (or cancellation is detected), the error
\* get_result_set surfaces is that error, unless a post-action raises during
\* the cleanup: then the post-action's error is the one surfaced.
C3_PostActionErrorWins ==
    (Done /\ PlanOp) =>
        \A m \in MainRaises :
            /\ outcome.kind = "raise"
            /\ outcome.exc = IF PostRaises = {} THEN log[m].exc
                             ELSE log[CHOOSE p \in PostRaises : TRUE].exc
            /\ Cardinality(PostRaises) <= 1

\* C3's case: a main statement raised one error and a post-action another.
C3_Witness ==
    /\ Done /\ PlanOp
    /\ \E m \in MainRaises, p \in PostRaises :
         /\ log[m].kind = "main"
         /\ log[m].exc = "SqlError"
         /\ log[p].exc = "FetchError"
         /\ outcome.exc = "FetchError"

\* The statement id the m-th statement of the plan returned to get_result_set.
ReturnedId(m) ==
    LET ps == {p \in 1..Len(log) : log[p].kind = "main" /\ log[p].idx = m /\ log[p].exc = "none"}
    IN IF ps = {} THEN 0 ELSE log[CHOOSE p \in ps : TRUE].sfqid
\* The earlier statements of the plan that are no batch inserts and own token `t`.
EarlierOwners(j, t) ==
    {m \in 1..(j - 1) : ~call.plan.queries[m].batch
                        /\ call.plan.queries[m].query_id_place_holder = t}
\* The SQL of statement j with the tokens of the earlier non-batch statements
\* replaced by the ids they returned, and nothing else changed.
ExpectedText(j) ==
    LET sql == call.plan.queries[j].sql
    IN [p \in 1..Len(sql) |->
          IF EarlierOwners(j, sql[p]) # {}
          THEN IdToken(ReturnedId(CHOOSE m \in EarlierOwners(j, sql[p]) : TRUE))
          ELSE sql[p]]

\* C4: the text run for a non-batch statement Sj is its SQL with every
\* occurrence of the placeholder token of each earlier non-batch statement
\* replaced by the id that statement returned, and nothing else altered; a batch
\* insert binds nothing, and its own text is run as the plan gives it.
C4_PlaceholdersReplaced ==
    PlanOp =>
        \A p \in 1..Len(log) :
            /\ log[p].kind = "main" =>
                 /\ log[p].text = ExpectedText(log[p].idx)
                 /\ \A m \in 1..(log[p].idx - 1) :
                      ~call.plan.queries[m].batch => ReturnedId(m) > 0
            /\ log[p].kind = "batch" => log[p].text = call.plan.queries[log[p].idx].sql

\* C4's case: the second statement of a plan ran with the id the first one
\* returned in the place of each occurrence of the first one's token.
C4_Witness ==
    /\ PlanOp /\ NQueries = 2
    /\ ~call.plan.queries[1].batch
    /\ \E p \in 1..Len(log) :
         /\ log[p].kind = "main" /\ log[p].idx = 2 /\ log[p].ok
         /\ log[p].text # call.plan.queries[2].sql
         /\ Cardinality({q \in 1..Len(log[p].text) : log[p].text[q] = IdToken(ReturnedId(1))}) >= 2

\* The plans none of whose statements produces a result.
NoResultPlan == \A j \in 1..NQueries : call.plan.queries[j].batch
AllPostActionsExecuted ==
    \A j \in 1..NPost :
        Cardinality({p \in 1..Len(log) : IsPost(log[p]) /\ log[p].idx = j /\ log[p].ok
                                         /\ log[p].exc = "none"}) = 1

\* C5, as stated: a plan with no main statement, or with batch inserts only,
\* makes get_result_set raise EmptyResultError, after all post-actions ran.
C5_NoResultAlwaysEmptyError ==
    (Done /\ PlanOp /\ NoResultPlan) =>
        outcome = Raise("EmptyResult") /\ AllPostActionsExecuted

\* C5, amended: such a plan never makes get_result_set return; it raises
\* EmptyResultError when no batch insert raises, no cancellation is detected and
\* no post-action raises (the error raised otherwise is that one), and
\* EmptyResultError is raised only after all post-actions have been executed.
C5_NoResultNeverReturns ==
    (Done /\ PlanOp /\ NoResultPlan) =>
        /\ outcome.kind = "raise"
        /\ (MainRaises = {} /\ PostRaises = {}) <=> outcome.exc = "EmptyResult"
        /\ outcome.exc = "EmptyResult" => AllPostActionsExecuted

\* C5's case: a plan of batch inserts only and two post-actions ended with
\* EmptyResultError.
C5_Witness ==
    /\ Done /\ PlanOp /\ NoResultPlan /\ NQueries >= 1 /\ NPost = 2
    /\ outcome = Raise("EmptyResult")

\* C6: every statement the cursor executes (a main statement, a post-action, a
\* batch insert, the set-tag and unset-tag statements around it) is broadcast
\* once to every listener registered at that moment: no registered listener is
\* left without its _add_query call.
C6_EveryRegisteredListenerNotified == broadcast.unheard = {}

\* Nothing reached the cursor and no listener heard anything.
NothingRan ==
    /\ \A p \in 1..Len(log) : ~log[p].sub /\ ~log[p].ok
    /\ sfq = 0
    /\ broadcast = NoBroadcast

\* C7, as stated: every public operation (get_session_id, get_parameter_value,
\* get_result_attributes, run_query, run_batch_insert, get_result_set, execute)
\* called on a closed connection fails with SessionClosedError, executes no
\* statement and notifies no listener.
C7_ClosedAlwaysSessionClosed ==
    (Done /\ call.was_closed) => outcome = Raise("SessionClosed") /\ NothingRan

\* What the code does on a closed connection: the five operations under
\* _Decorator.wrap_exception fail with SessionClosedError; get_result_set and
\* execute have no liveness check of their own: they run no statement and notify
\* no listener either, and fail with SessionClosedError, raised by the first
\* run_query or run_batch_insert they call, when the plan has a main statement
\* or a post-action, and with EmptyResultError when it has neither.
ClosedFailsBeforeAnyStatement ==
    (Done /\ call.was_closed) =>
        /\ NothingRan
        /\ outcome = IF PlanOp /\ NQueries = 0 /\ NPost = 0
                     THEN Raise("EmptyResult")
                     ELSE Raise("SessionClosed")

\* get_result_set was called on a closed connection with a plan of main
\* statements and post-actions.
ClosedPlanWitness ==
    /\ Done /\ call.was_closed /\ call.op = "get_result_set"
    /\ NQueries >= 1 /\ NPost >= 1
    /\ outcome = Raise("SessionClosed")

\* The places of the log where a main statement of the plan completed: run_query
\* returned, or run_batch_insert did (after its unset-tag statement when tagged).
Completed ==
    {p \in 1..Len(log) :
        /\ log[p].exc = "none"
        /\ \/ log[p].kind = "main"
           \/ log[p].kind = "batch" /\ ~QueryTag
           \/ log[p].kind = "unset_tag"}
Checks == {p \in 1..Len(log) : log[p].kind = "check"}

\* What the log shows of the checks: one after every main statement that
\* completed, passed exactly when the captured id is not less than the watermark
\* it saw; no statement of the plan after a check that did not pass, no later
\* statement and no normal return without a check that passed.
ChecksInLog ==
    PlanOp =>
        /\ \A p \in Completed :
             IF p = Len(log) THEN pc = "check" /\ i = log[p].idx
             ELSE log[p + 1].kind = "check" /\ log[p + 1].idx = log[p].idx
        /\ \A c \in Checks :
             /\ (c - 1) \in Completed
             /\ (log[c].exc = "none") <=> (action_id >= log[c].seen)
             /\ log[c].exc # "none" => \A q \in (c + 1)..Len(log) : IsPost(log[q])
        /\ \A p \in 1..Len(log) :
             (IsStatement(log[p]) /\ log[p].idx > 1) =>
                \E c \in Checks : /\ c < p
                                  /\ log[c].idx = log[p].idx - 1
                                  /\ action_id >= log[c].seen
        /\ (Done /\ outcome.kind = "return") =>
             \E c \in Checks : log[c].idx = NQueries /\ action_id >= log[c].seen

\* C8: the action id is captured once, at the start, and compared with the
\* watermark after every main statement that completes (batch inserts and the
\* last statement included); the plan goes on, to the next statement or to a
\* normal return, only if the captured id is not less than the watermark seen
\* by that check, and a watermark equal to the id does not cancel.
C8_CheckedAfterEveryStatement ==
    /\ []ChecksInLog
    /\ [][/\ pc = "idle" /\ PlanOp' => action_id' = last_action_id' /\ action_id' > last_action_id
          /\ pc # "idle" => action_id' = action_id]_vars

\* C8's case: a plan with a batch insert returned normally, after a check that
\* saw the watermark equal to the captured action id.
C8_Witness ==
    /\ Done /\ PlanOp /\ outcome.kind = "return"
    /\ NQueries = 2 /\ ~NoResultPlan /\ HasBatch(call.plan)
    /\ \E c \in Checks : log[c].seen = action_id /\ log[c].idx = 1
    /\ \E c \in Checks : log[c].idx = 2

\* C9, as stated: cancellation is not noticed in the post-action phase, so a
\* plan whose every main-statement check passed returns its result. (Read in the
\* claim's favour: a plan that has a statement with a result.)
C9_ChecksPassedAlwaysReturns ==
    (Done /\ PlanOp /\ MainRaises = {} /\ ~NoResultPlan) => outcome.kind = "return"

\* C9, amended: once the main-statement loop has been left with every check
\* passed, a rise of the watermark neither stops the post-actions nor makes
\* get_result_set raise QueryCancelledError: the plan returns its result unless
\* a post-action raises (or no statement produced a result).
C9_NoCancellationAfterTheLoop ==
    (PlanOp /\ MainRaises = {}) =>
        /\ PostPhaseInOrder
        /\ Done =>
             /\ PostPhaseThrough
             /\ outcome.exc # "QueryCancelled"
             /\ (PostRaises = {} /\ ~NoResultPlan) => outcome.kind = "return"

\* C9's case: the watermark rose above the action id after the last check, both
\* post-actions ran and the result was returned.
C9_Witness ==
    /\ Done /\ PlanOp /\ MainRaises = {}
    /\ last_canceled_id > action_id
    /\ NPost = 2 /\ Len(PostEntries) = 2
    /\ outcome.kind = "return"

\* The last statement of the plan that is no batch insert, and its run.
LastNonBatch ==
    CHOOSE j \in 1..NQueries :
        /\ ~call.plan.queries[j].batch
        /\ \A m \in (j + 1)..NQueries : call.plan.queries[m].batch

\* C10: a normal return of get_result_set hands back the row data and the
\* column metadata of the last non-batch main statement of the plan, whatever
\* batch inserts and post-actions ran after it.
C10_ReturnsLastNonBatchResult ==
    (Done /\ call.op = "get_result_set" /\ outcome.kind = "return") =>
        /\ ~NoResultPlan
        /\ ReturnedId(LastNonBatch) > 0
        /\ outcome.data.rows = RawRows(ReturnedId(LastNonBatch))
        /\ outcome.meta = Description(ReturnedId(LastNonBatch))
        /\ outcome.data.form \in IF call.to_pandas THEN {"table", "rows"} ELSE {"rows"}

\* C10's case: a batch insert and a post-action ran after the statement whose
\* result was returned.
C10_Witness ==
    /\ Done /\ call.op = "get_result_set" /\ outcome.kind = "return"
    /\ NQueries = 2 /\ call.plan.queries[2].batch
    /\ NPost >= 1
    /\ sfq > ReturnedId(1) + 1

\* ------------------------------------------------------------------ C11
\* The statements a call of run_batch_insert has to run, in their order.
BatchStatements ==
    IF call.tag /\ ~in_stored_proc THEN <<"set_tag", "batch", "unset_tag">> ELSE <<"batch">>
\* The statement that ran last without raising was broadcast to every listener
\* registered when it ran.
LastBroadcastComplete ==
    (Len(log) > 0 /\ log[Len(log)].ok /\ log[Len(log)].exc = "none") =>
        broadcast = [sfqid |-> log[Len(log)].sfqid, unheard |-> {}]

\* The liveness guard found the connection closed and the method was not entered.
GuardRaised == log # <<>> /\ log[1].exc = "SessionClosed"

\* C11: a call of run_batch_insert with a query tag asked for outside a stored
\* procedure runs set-tag, insert, unset-tag, in this order, and has executed
\* exactly these three, each broadcast to the listeners, when it returns; in a
\* stored procedure it runs the insert alone, broadcast once, and no statement
\* about the tag that could raise. Once the guard has let the call in, every
\* statement but the last one tried was executed and broadcast without raising.
C11_TagStatementsAroundInsert ==
    (call.op = "run_batch_insert" /\ ~GuardRaised) =>
        /\ Len(log) <= Len(BatchStatements)
        /\ \A p \in 1..Len(log) :
             /\ log[p].kind = BatchStatements[p]
             /\ log[p].sub
             /\ log[p].text = IF log[p].kind = "batch" THEN call.query
                              ELSE IF log[p].kind = "set_tag" THEN SetTagSql ELSE UnsetTagSql
             /\ p < Len(log) => log[p].ok /\ log[p].exc = "none"
             /\ log[p].ok => log[p].sfqid = p
        /\ LastBroadcastComplete
        /\ (Done /\ outcome.kind = "return") =>
             /\ Len(log) = Len(BatchStatements)
             /\ \A p \in 1..Len(log) : log[p].ok /\ log[p].exc = "none"
        /\ Done => (outcome.kind = "return" <=> log[Len(log)].exc = "none")

\* C11's case: a tagged run_batch_insert outside a stored procedure returned
\* after its three statements, with a listener registered all along.
C11_Witness ==
    /\ Done /\ call.op = "run_batch_insert" /\ call.tag /\ ~in_stored_proc
    /\ outcome.kind = "return"
    /\ Len(log) = 3 /\ sfq = 3
    /\ query_listener # {}
    /\ broadcast = [sfqid |-> 3, unheard |-> {}]

\* In a stored procedure the insert ran alone although a tag was asked for.
StoredProcWitness ==
    /\ Done /\ call.op = "run_batch_insert" /\ call.tag /\ in_stored_proc
    /\ outcome.kind = "return" /\ Len(log) = 1 /\ sfq = 1

\* ------------------------------------------------------------------ C12
\* A call of run_query with tabular fetch whose fetch_pandas_all raised
\* NotSupportedError, and the rows the statement's id stands for.
FellBack ==
    /\ Done /\ call.op = "run_query" /\ call.to_pandas
    /\ Len(log) = 1 /\ log[1].pandas = "NotSupported"
FetchedRows == Return([form |-> "rows", rows |-> RawRows(log[1].sfqid)], NoDescription)

\* C12, as stated: when the tabular fetch is not supported run_query falls back
\* to the row fetch and returns the rows of the statement; when the row fetch
\* fails too it raises SERVER_FAILED_FETCH_PANDAS (FetchFailedError).
C12_FallbackFailureIsFetchFailed ==
    FellBack =>
        /\ log[1].fetchall # "none"
        /\ outcome = IF log[1].fetchall = "ok" THEN FetchedRows
                     ELSE Raise("FetchPandasFailed")

\* C12, amended: when the tabular fetch is not supported run_query falls back to
\* the row fetch and returns the rows of the statement; when the row fetch fails
\* too, run_query raises the row fetch's own error unchanged (SessionExpired for
\* a re-authentication request); SERVER_FAILED_FETCH_PANDAS is what it raises
\* when the tabular fetch itself fails for another reason than being unsupported,
\* and no row fetch is tried then.
C12_FallbackFailurePropagates ==
    (Done /\ call.op = "run_query" /\ call.to_pandas /\ Len(log) = 1) =>
        /\ log[1].pandas = "NotSupported" =>
             /\ log[1].fetchall # "none"
             /\ outcome = IF log[1].fetchall = "ok" THEN FetchedRows
                          ELSE IF log[1].fetchall = "Reauth" THEN Raise("SessionExpired")
                          ELSE Raise(log[1].fetchall)
        /\ log[1].pandas \notin {"none", "ok", "NotSupported"} =>
             /\ log[1].fetchall = "none"
             /\ outcome = Raise("FetchPandasFailed")
        /\ outcome = Raise("FetchPandasFailed") =>
             log[1].pandas \notin {"none", "ok", "NotSupported"}

\* C12's case: the tabular fetch was not supported and the row fetch failed.
C12_Witness ==
    /\ FellBack
    /\ log[1].ok
    /\ log[1].fetchall = "FetchError"
    /\ outcome = Raise("FetchError")

\* ------------------------------------------------------------------ C13
\* The runs of guarded operations in which the transport raised a
\* ReauthenticationRequest.
ReauthRaised ==
    {p \in 1..Len(log) : "Reauth" \in {log[p].cur, log[p].pandas, log[p].fetchall}}

\* C13: a re-authentication request of the transport, raised while a statement
\* is executed or described or while its result is fetched (fetch_pandas_all
\* included), leaves the guarded operation as SERVER_SESSION_EXPIRED.
C13_ReauthAlwaysSessionExpired ==
    \A p \in ReauthRaised : log[p].exc = "SessionExpired"

\* ------------------------------------------------------------------ C14
\* The statements run_query executed.
RunQueryExecuted ==
    {p \in 1..Len(log) : log[p].kind \in {"query", "main", "post"} /\ log[p].ok}

\* C14: a listener that raises in _add_query does not change what run_query
\* does with the statement it executed: run_query goes on to the fetch and
\* returns the data and the id, or raises what the fetch raised, as with no
\* listener registered.
C14_ListenerFailureKeepsOutcome ==
    \A p \in RunQueryExecuted :
        /\ log[p].exc # "ListenerError"
        /\ "none" # log[p].pandas \/ "none" # log[p].fetchall

\* ------------------------------------------------------------------ C15
\* _get_data_type has returned for a DECIMAL or a FIXED column.
MappedDecimalOrFixed ==
    /\ args.method = "_get_data_type"
    /\ args.column_type_name \in {"DECIMAL", "FIXED"}
    /\ value # NoValue

\* C15: for DECIMAL and FIXED, FIXED with scale 0 is the 64-bit integer type
\* whatever the precision; otherwise a precision above the maximum gives the
\* decimal of the maximum precision and of scale scale + precision - max_scale,
\* precision = scale = 0 gives decimal(38, 18), and anything else gives
\* decimal(precision, scale) as given.
C15_DecimalAndFixedMapping ==
    MappedDecimalOrFixed =>
        value = IF args.column_type_name = "FIXED" /\ args.scale = 0
                THEN [kind |-> "LongType", precision |-> 0, scale |-> 0]
                ELSE [kind |-> "DecimalType",
                      precision |-> IF args.precision > MAX_PRECISION THEN MAX_PRECISION
                                    ELSE IF args.precision = 0 /\ args.scale = 0 THEN 38
                                    ELSE args.precision,
                      scale |-> IF args.precision > MAX_PRECISION
                                THEN args.scale + args.precision - MAX_SCALE
                                ELSE IF args.precision = 0 /\ args.scale = 0 THEN 18
                                ELSE args.scale]

\* C15's case: a DECIMAL of a precision above the maximum was mapped.
C15_Witness ==
    /\ MappedDecimalOrFixed
    /\ args.column_type_name = "DECIMAL"
    /\ args.precision = MAX_PRECISION + 2 /\ args.scale = 3
    /\ value = [kind |-> "DecimalType", precision |-> MAX_PRECISION, scale |-> 5]

\* ------------------------------------------------------------------ C16
RowsReturned == args.method = "result_set_to_rows" /\ value # NoValue

\* C16: result_set_to_rows returns one row per raw row, in the same order, with
\* the raw row's values at their positions; with metadata every row has as its
\* field names the names of the metadata's columns, in column order, a name that
\* occurs twice kept twice; without metadata a row has no field names.
C16_RowsKeepValuesAndNames ==
    RowsReturned =>
        /\ Len(value.rows) = Len(args.result_set)
        /\ \A r \in 1..Len(value.rows) :
             /\ Len(value.rows[r].values) = Len(args.result_set[r])
             /\ \A c \in 1..Len(args.result_set[r]) :
                  value.rows[r].values[c] = args.result_set[r][c]
             /\ IF args.result_meta.none
                THEN ~value.rows[r].named /\ value.rows[r].fields = <<>>
                ELSE /\ value.rows[r].named
                     /\ Len(value.rows[r].fields) = Len(args.result_meta.cols)
                     /\ \A c \in 1..Len(args.result_meta.cols) :
                          value.rows[r].fields[c] = args.result_meta.cols[c].name

\* C16's case: two different rows of two values under two columns of one name.
C16_Witness ==
    /\ RowsReturned
    /\ Len(args.result_set) = 2
    /\ args.result_set[1] = <<0, 1>> /\ args.result_set[2] = <<1, 0>>
    /\ ~args.result_meta.none
    /\ value.rows[1].fields = <<"A", "A">> /\ value.rows[2].fields = <<"A", "A">>
    /\ value.rows[1].values = <<0, 1>> /\ value.rows[2].values = <<1, 0>>

\* ------------------------------------------------------------------ C20
\* A decimal type was returned for a DECIMAL or FIXED of 0 <= scale <= precision.
DecimalOfValidInput ==
    /\ MappedDecimalOrFixed
    /\ 0 <= args.scale /\ args.scale <= args.precision
    /\ value.kind = "DecimalType"

\* C20, as stated: for every DECIMAL or FIXED input with 0 <= scale <= precision
\* the decimal type returned has a precision of at most the maximum and a scale
\* of at most its own precision.
C20_DecimalAlwaysValid ==
    DecimalOfValidInput =>
        /\ value.precision <= MAX_PRECISION
        /\ value.scale <= value.precision

\* C20, amended: for such an input the decimal type returned has a precision of
\* at most the maximum, and a scale of at most its own precision unless the
\* precision given exceeds the maximum and scale + precision exceeds
\* maximum + max_scale: the scale returned is then scale + precision - max_scale,
\* above the maximum precision returned.
C20_DecimalValidUnlessRebalanced ==
    DecimalOfValidInput =>
        /\ value.precision <= MAX_PRECISION
        /\ value.scale >= 0
        /\ (value.scale <= value.precision) <=>
             ~(/\ args.precision > MAX_PRECISION
               /\ args.scale + args.precision > MAX_PRECISION + MAX_SCALE)
        /\ value.scale > value.precision =>
             /\ value.precision = MAX_PRECISION
             /\ value.scale = args.scale + args.precision - MAX_SCALE

\* C20's case: DECIMAL(39, 38) was mapped to a decimal of precision 38, scale 39.
C20_Witness ==
    /\ DecimalOfValidInput
    /\ args.precision = MAX_PRECISION + 1 /\ args.scale = MAX_PRECISION
    /\ value.precision = MAX_PRECISION /\ value.scale = MAX_PRECISION + 1

\* ------------------------------------------------------------------ C17
\* The places of the log where a main statement of the plan was handed to
\* run_query or to run_batch_insert (the first statement the latter tries).
Submitted ==
    {p \in 1..Len(log) :
        \/ log[p].kind = "main"
        \/ log[p].kind = "set_tag"
        \/ log[p].kind = "batch" /\ (p = 1 \/ log[p - 1].kind # "set_tag"
                                           \/ log[p - 1].idx # log[p].idx)}
\* The places where a statement of the main phase raised.
StatementRaises == {p \in MainRaises : IsStatement(log[p])}

\* C17: the main statements are submitted one after another in plan order, each
\* at most once, and those submitted are the first ones of the plan; the one
\* before was through without raising and its check passed; once a main
\* statement raises no main statement is submitted any more and the post-actions
\* are next.
C17_MainStatementsArePrefix ==
    PlanOp =>
        /\ \A p \in Submitted :
             /\ log[p].idx \in 1..NQueries
             /\ log[p].idx = Cardinality({q \in Submitted : q <= p})
             /\ (log[p].kind = "main") = ~call.plan.queries[log[p].idx].batch
             /\ \A q \in 1..(p - 1) : log[q].exc = "none" /\ ~IsPost(log[q])
        /\ \A p \in 1..Len(log) :
             IsStatement(log[p]) =>
                \E q \in Submitted : q <= p /\ log[q].idx = log[p].idx
                                     /\ \A x \in q..p : log[x].idx = log[p].idx
        /\ \A m \in StatementRaises :
             /\ \A q \in (m + 1)..Len(log) : IsPost(log[q])
             /\ IF m = Len(log)
                THEN IF NPost >= 1 THEN pc = "post" /\ k = 1 ELSE pc \in {"exit", "done"}
                ELSE log[m + 1].idx = 1
             /\ Done => (Len(PostEntries) >= 1 \/ NPost = 0)

\* C17's case: the first of two main statements raised, the second was never
\* submitted, and the post-actions ran.
C17_Witness ==
    /\ Done /\ PlanOp /\ NQueries = 2 /\ NPost = 2
    /\ StatementRaises = {1}
    /\ Submitted = {1}
    /\ Len(PostEntries) = 2

\* ------------------------------------------------------------------ C18
\* C18: when run_batch_insert has executed the set-tag statement it executes the
\* unset-tag statement before it exits, also when the insert raises: the
\* session's query tag is not set once run_batch_insert has returned or raised.
C18_TagUnsetOnExit ==
    (Done /\ call.op = "run_batch_insert") => ~query_tag

\* ------------------------------------------------------------------ C19
\* What the log and the locals show of the post-actions: each text run_query
\* was given is the plan's, and what get_result_set returns is the result and
\* the metadata it held when the for loop was left.
PostActionsAsGiven ==
    PlanOp =>
        /\ \A p \in 1..Len(log) :
             IsPost(log[p]) => log[p].text = call.plan.post_actions[log[p].idx]
        /\ (Done /\ call.op = "get_result_set" /\ outcome.kind = "return") =>
             outcome.data = result.data /\ outcome.meta = result_meta

\* C19: post-actions are run with the texts the plan gives, the placeholders
\* bound by the main statements never applied to them; a post-action binds no
\* placeholder, and running post-actions changes neither the result nor the
\* column metadata get_result_set returns.
C19_PostActionsUntouched ==
    /\ []PostActionsAsGiven
    /\ [][(pc \in {"post", "exit"}) =>
             (placeholders' = placeholders /\ result' = result /\ result_meta' = result_meta)]_vars

\* C19's case: two post-actions, whose text holds the placeholder the first
\* statement had bound, ran after it and moved the cursor's description on.
C19_Witness ==
    /\ Done /\ call.op = "get_result_set" /\ outcome.kind = "return"
    /\ NPost = 2 /\ Len(PostEntries) = 2
    /\ \E b \in 1..Len(placeholders) :
         /\ placeholders[b].holder = Holder(1)
         /\ \E c \in 1..Len(PostEntries[1].text) : PostEntries[1].text[c] = Holder(1)
    /\ description # result_meta
    /\ outcome.meta = result_meta

====
